---- MODULE Spec2Model ----
(***************************************************************************)
(* Burrows-Wheeler transform (bw_transform.py) and its inversion through a *)
(* last-first map (invert_bwt.py).                                         *)
(*                                                                         *)
(* A Python str is a sequence of code points; Python's 0-based indices are *)
(* kept as values (lf_map, x, i) and shifted by one when a sequence is     *)
(* read.  A call that raises yields [raised |-> TRUE, ...].                *)
(***************************************************************************)
EXTENDS Integers, Sequences, FiniteSets, TLC

\* ---------------------------------------------------------------- bounds
MaxLen == 4
NumChars == 4
MaxLines == 2
MaxUnitLen == 2

\* ------------------------------------------------------------ characters
Newline == 10
Space == 32
Dollar == 36

\* bw_transform.py:88-100, invert_bwt.py:57-69
ALPHABET == {32} \cup (48 .. 57) \cup (65 .. 90) \cup (97 .. 122)

\* characters the checked texts are drawn from: ' ', 'a', 'b', '3', 'A'
CharPool == <<32, 97, 98, 51, 65>>
TextChars == {CharPool[k] : k \in 1 .. NumChars}
\* sentinels tried: '#' and '$' (between ' ' and the digits), '~' (above 'z')
SentinelChars == {35, Dollar, 126}

RECURSIVE StringsUpTo(_, _)
StringsUpTo(chars, n) ==
  IF n = 0 THEN {<<>>}
  ELSE LET shorter == StringsUpTo(chars, n - 1)
       IN  shorter \cup {Append(s, c) : s \in shorter, c \in chars}

Count(c, s) == Cardinality({k \in 1 .. Len(s) : s[k] = c})
Occurs(c, s) == \E k \in 1 .. Len(s) : s[k] = c

\* ------------------------------------------------- Python built-in order
\* str < str: lexicographic by code point, a proper prefix is smaller
RECURSIVE StrLess(_, _)
StrLess(a, b) ==
  IF b = <<>> THEN FALSE
  ELSE IF a = <<>> THEN TRUE
  ELSE IF Head(a) # Head(b) THEN Head(a) < Head(b)
  ELSE StrLess(Tail(a), Tail(b))

\* ------------------------------------------------------- bw_transform.py
sorted_rotations_to_bwt(sorted_rotations) ==
  [k \in 1 .. Len(sorted_rotations) |->
      sorted_rotations[k][Len(sorted_rotations[k])]]

\* variant: the rotations are returned in the order they were made
sort_rotations_unsorted(rots) == rots

\* list.sort() is stable: the element at position k moves to the rank given
\* by the number of elements that are smaller, or equal and earlier
\* variant: rotations.reverse() in place of rotations.sort()
sort_rotations_reversed(rots) ==
  [r \in 1 .. Len(rots) |-> rots[Len(rots) + 1 - r]]

sort_rotations(rots) ==
  LET n == Len(rots)
      Before(j, k) ==
        StrLess(rots[j], rots[k]) \/ (~StrLess(rots[k], rots[j]) /\ j < k)
      Rank(k) == Cardinality({j \in 1 .. n : Before(j, k)}) + 1
  IN  [r \in 1 .. n |-> rots[CHOOSE k \in 1 .. n : Rank(k) = r]]

\* variant: slices of text instead of text2, so rotation i is the suffix at i
make_rotations_suffixes(t) ==
  LET n == Len(t)
  IN  [k \in 1 .. n |-> SubSeq(t, k, n)]

\* variant: range(n - 1), the last rotation is missing
make_rotations_short(t) ==
  LET n == Len(t)
      text2 == t \o t
  IN  [k \in 1 .. n - 1 |-> SubSeq(text2, k, k + n - 1)]

\* variant: text2[n - i:2 * n - i], the shift goes right instead of left
make_rotations_right(t) ==
  LET n == Len(t)
      text2 == t \o t
  IN  [k \in 1 .. n |-> SubSeq(text2, n - k + 2, 2 * n - k + 1)]

make_rotations(t) ==
  LET n == Len(t)
      text2 == t \o t
  IN  [k \in 1 .. n |-> SubSeq(text2, k, k + n - 1)]

bw_transform(t, e) ==
  sorted_rotations_to_bwt(sort_rotations(make_rotations(t \o <<e>>)))

\* --------------------------------------------------------- invert_bwt.py
\* the characters of astr in list.sort() order (by code point, stable)
\* variant: sorted(astr, reverse=True)
sort_string_descending(astr) ==
  LET n == Len(astr)
      Before(j, k) == astr[j] > astr[k] \/ (astr[j] = astr[k] /\ j < k)
      Rank(k) == Cardinality({j \in 1 .. n : Before(j, k)}) + 1
  IN  [r \in 1 .. n |-> astr[CHOOSE k \in 1 .. n : Rank(k) = r]]

sort_string(astr) ==
  LET n == Len(astr)
      Before(j, k) == astr[j] < astr[k] \/ (astr[j] = astr[k] /\ j < k)
      Rank(k) == Cardinality({j \in 1 .. n : Before(j, k)}) + 1
  IN  [r \in 1 .. n |-> astr[CHOOSE k \in 1 .. n : Rank(k) = r]]

\* variant: appendleft(i) queues a later index before the earlier ones
RECURSIVE build_queues_appendleft(_, _, _)
build_queues_appendleft(last, k, d) ==
  IF k = Len(last) THEN d
  ELSE LET char == last[k + 1]
       IN  build_queues_appendleft(last, k + 1,
             IF char \notin DOMAIN d THEN d @@ (char :> <<k>>)
             ELSE [d EXCEPT ![char] = <<k>> \o @])

\* first loop of build_map: d maps a character to the queue of its indices
RECURSIVE build_queues(_, _, _)
build_queues(last, k, d) ==
  IF k = Len(last) THEN d
  ELSE LET char == last[k + 1]
       IN  build_queues(last, k + 1,
             IF char \notin DOMAIN d THEN d @@ (char :> <<k>>)
             ELSE [d EXCEPT ![char] = Append(@, k)])

\* variant: pop() takes the newest index instead of the oldest
popleft_newest(q) == [item |-> q[Len(q)], rest |-> SubSeq(q, 1, Len(q) - 1)]

\* variant: d[c][0] reads the oldest index and leaves it queued
popleft_keep(q) == [item |-> Head(q), rest |-> q]

\* d[c].popleft(): the index taken and the queue left
popleft(q) == [item |-> Head(q), rest |-> Tail(q)]

\* second loop of build_map: one popleft per character of first
RECURSIVE drain_queues(_, _, _, _)
drain_queues(first, k, d, lf) ==
  IF k = Len(first) THEN lf
  ELSE LET c == first[k + 1]
           p == popleft(d[c])
       IN  drain_queues(first, k + 1, [d EXCEPT ![c] = p.rest],
                        Append(lf, p.item))

build_map(last) ==
  LET first == sort_string(last)
      d == build_queues(last, 0, <<>>)
  IN  drain_queues(first, 0, d, <<>>)

\* variant: an index that also raises when the character occurs twice
str_index_unique(s, c) ==
  IF Count(c, s) = 1
  THEN [raised |-> FALSE, value |-> (CHOOSE k \in 1 .. Len(s) : s[k] = c) - 1]
  ELSE [raised |-> TRUE, value |-> 0]

\* bwt.index(end_char): the first position, ValueError when absent
str_index(s, c) ==
  IF Occurs(c, s)
  THEN [raised |-> FALSE,
        value |-> (CHOOSE k \in 1 .. Len(s) :
                      s[k] = c /\ \A j \in 1 .. k - 1 : s[j] # c) - 1]
  ELSE [raised |-> TRUE, value |-> 0]

\* the loop body with line 180 left out: x stays where it started
walk_step_stuck(b, lf, st) ==
  [x |-> st.x, i |-> st.i + 1, text |-> Append(st.text, b[st.x + 1]),
   visited |-> Append(st.visited, st.x)]

\* one iteration of the loop of text_using_map; visited records the values
\* x takes at line 180, in order
walk_step(b, lf, st) ==
  LET nx == lf[st.x + 1]
  IN  [x |-> nx, i |-> st.i + 1, text |-> Append(st.text, b[nx + 1]),
       visited |-> Append(st.visited, nx)]

RECURSIVE walk_loop(_, _, _)
walk_loop(b, lf, st) ==
  IF st.i = Len(b) THEN st ELSE walk_loop(b, lf, walk_step(b, lf, st))

text_using_map(b, lf, e) ==
  LET start == str_index(b, e)
  IN  IF start.raised THEN [raised |-> TRUE, value |-> <<>>]
      ELSE [raised |-> FALSE,
            value |-> walk_loop(b, lf,
                        [x |-> start.value, i |-> 0, text |-> <<>>,
                         visited |-> <<>>]).text]

\* text[:-1]
drop_last(t) == SubSeq(t, 1, Len(t) - 1)

\* variant: line 221 passes end_char on to text_using_map
invert_bwt_via_map_passed(b, e) ==
  LET lf == build_map(b)
      t == text_using_map(b, lf, e)
  IN  IF t.raised THEN t ELSE [raised |-> FALSE, value |-> drop_last(t.value)]

\* end_char is accepted but text_using_map is called with its default '$'
invert_bwt_via_map(b, e) ==
  LET lf == build_map(b)
      t == text_using_map(b, lf, Dollar)
  IN  IF t.raised THEN t ELSE [raised |-> FALSE, value |-> drop_last(t.value)]

\* ------------------------------------------------ collaborators (common)
\* authenticate(bwt, text, end_char): re-encode the text and compare
authenticate(b, t, e) == bw_transform(t, e) = b

\* ----------------------------------------------------- Python built-ins
\* line_no = None
NoLineNo == -1

\* `if line_no:` is false for None and for 0
Truthy(line_no) == line_no # NoLineNo /\ line_no # 0

\* str(n) of a non-negative int, as used by the f-strings
RECURSIVE str_int(_)
str_int(n) ==
  IF n < 10 THEN <<48 + n>> ELSE str_int(n \div 10) \o <<48 + (n % 10)>>

\* str.isspace() on ASCII
Whitespace == {9, 10, 11, 12, 13, 28, 29, 30, 31, 32}

RECURSIVE lstrip(_, _)
lstrip(s, chars) ==
  IF s # <<>> /\ Head(s) \in chars THEN lstrip(Tail(s), chars) ELSE s

RECURSIVE rstrip(_, _)
rstrip(s, chars) ==
  IF s # <<>> /\ s[Len(s)] \in chars
  THEN rstrip(SubSeq(s, 1, Len(s) - 1), chars) ELSE s

\* raw_text.strip() and raw_bwt.strip('\n')
strip(s, chars) == rstrip(lstrip(s, chars), chars)

\* ------------------------------------------------- messages, as written
\* 'String has no symbols.'
MsgNoSymbols ==
  <<83, 116, 114, 105, 110, 103, 32, 104, 97, 115, 32, 110, 111, 32, 115,
    121, 109, 98, 111, 108, 115, 46>>

\* 'String has more than one symbols.'
MsgManySymbols ==
  <<83, 116, 114, 105, 110, 103, 32, 104, 97, 115, 32, 109, 111, 114, 101,
    32, 116, 104, 97, 110, 32, 111, 110, 101, 32, 115, 121, 109, 98, 111,
    108, 115, 46>>

\* 'Line no. '
MsgLineNo ==
  <<76, 105, 110, 101, 32, 110, 111, 46, 32>>

\* ' has no symbols.'
MsgLineNoSymbols ==
  <<32, 104, 97, 115, 32, 110, 111, 32, 115, 121, 109, 98, 111, 108, 115,
    46>>

\* ' has more than one symbols.'
MsgLineManySymbols ==
  <<32, 104, 97, 115, 32, 109, 111, 114, 101, 32, 116, 104, 97, 110, 32,
    111, 110, 101, 32, 115, 121, 109, 98, 111, 108, 115, 46>>

\* 'String has characters other than spaces and alphanumeric.'
MsgBadChars ==
  <<83, 116, 114, 105, 110, 103, 32, 104, 97, 115, 32, 99, 104, 97, 114,
    97, 99, 116, 101, 114, 115, 32, 111, 116, 104, 101, 114, 32, 116, 104,
    97, 110, 32, 115, 112, 97, 99, 101, 115, 32, 97, 110, 100, 32, 97, 108,
    112, 104, 97, 110, 117, 109, 101, 114, 105, 99, 46>>

\* ' has characters other than spaces and alphanumeric.'
MsgLineBadChars ==
  <<32, 104, 97, 115, 32, 99, 104, 97, 114, 97, 99, 116, 101, 114, 115, 32,
    111, 116, 104, 101, 114, 32, 116, 104, 97, 110, 32, 115, 112, 97, 99,
    101, 115, 32, 97, 110, 100, 32, 97, 108, 112, 104, 97, 110, 117, 109,
    101, 114, 105, 99, 46>>

\* ------------------------------------------- validation (both modules)
\* invert_bwt.py validate_bwt: an error message, or the string with its one
\* symbol replaced by end_char
validate_bwt(string, line_no, e) ==
  LET indices_non == {k \in 0 .. Len(string) - 1 : string[k + 1] \notin ALPHABET}
  IN  IF Cardinality(indices_non) = 0
      THEN IF Truthy(line_no)
           THEN MsgLineNo \o str_int(line_no) \o MsgLineNoSymbols
           ELSE MsgNoSymbols
      ELSE IF Cardinality(indices_non) > 1
      THEN IF Truthy(line_no)
           THEN MsgLineNo \o str_int(line_no) \o MsgLineManySymbols
           ELSE MsgManySymbols
      ELSE LET k == CHOOSE j \in indices_non : TRUE
           IN  SubSeq(string, 1, k) \o <<e>> \o SubSeq(string, k + 2, Len(string))

\* bw_transform.py validate_text: an error message, or the text itself
validate_text(t, line_no) ==
  LET count_non == Cardinality({k \in 1 .. Len(t) : t[k] \notin ALPHABET})
  IN  IF count_non > 0
      THEN IF Truthy(line_no)
           THEN MsgLineNo \o str_int(line_no) \o MsgLineBadChars
           ELSE MsgBadChars
      ELSE t


\* ------------------------------------------------------------------ state
VARIABLES
  text,       \* argument text of bw_transform
  end_char,   \* argument end_char of bw_transform and invert_bwt_via_map
  pc,         \* position in the call being executed
  work,       \* local text of bw_transform after line 253
  rotations,  \* local rotations / sorted_rotations of bw_transform
  bwt,        \* the transform: result of bw_transform, argument of the inverse
  lf_map,     \* local lf_map of invert_bwt_via_map
  walk,       \* locals x, i, text of the loop of text_using_map, and the
              \* indices it has visited
  result,     \* value returned by invert_bwt_via_map
  string,     \* main: the string that follows -s
  lines,      \* the lines of input_file as the file iterator yields them
  counter,    \* local counter of the *_file_as_word_list functions
  output_list,  \* local output_list of the *_file_as_word_list functions
  unit,       \* the unit in hand: raw (stripped) and checked (validated)
  printed,    \* what has been printed, in order
  calls       \* the calls made so far to bw_transform / invert_bwt_via_map

corevars == <<text, work, rotations, bwt, lf_map, walk, result>>
toolvars == <<string, lines, counter, output_list, unit, printed, calls>>
vars == <<end_char, pc, corevars, toolvars>>

NoUnit == [raw |-> <<>>, checked |-> <<>>]

ToolIdle ==
  /\ string = <<>>
  /\ lines = <<>>
  /\ counter = 0
  /\ output_list = <<>>
  /\ unit = NoUnit
  /\ printed = <<>>
  /\ calls = <<>>

NoWalk == [x |-> 0, i |-> 0, text |-> <<>>, visited |-> <<>>]

\* bw_transform(text, end_char) followed by invert_bwt_via_map(bwt, end_char)
Init ==
  /\ text \in StringsUpTo(TextChars, MaxLen)
  /\ end_char \in SentinelChars \cup TextChars
  /\ pc = "start"
  /\ work = <<>>
  /\ rotations = <<>>
  /\ bwt = <<>>
  /\ lf_map = <<>>
  /\ walk = NoWalk
  /\ result = <<>>
  /\ ToolIdle

\* bw_transform line 253
AppendEndChar ==
  /\ pc = "start"
  /\ work' = text \o <<end_char>>
  /\ pc' = "rotate"
  /\ UNCHANGED <<text, end_char, rotations, bwt, lf_map, walk, result>>
  /\ UNCHANGED toolvars

\* bw_transform line 254
MakeRotations ==
  /\ pc = "rotate"
  /\ rotations' = make_rotations(work)
  /\ pc' = "sort"
  /\ UNCHANGED <<text, end_char, work, bwt, lf_map, walk, result>>
  /\ UNCHANGED toolvars

\* bw_transform line 256
SortRotations ==
  /\ pc = "sort"
  /\ rotations' = sort_rotations(rotations)
  /\ pc' = "extract"
  /\ UNCHANGED <<text, end_char, work, bwt, lf_map, walk, result>>
  /\ UNCHANGED toolvars

\* bw_transform lines 258-259
ExtractBwt ==
  /\ pc = "extract"
  /\ bwt' = sorted_rotations_to_bwt(rotations)
  /\ pc' = "encoded"
  /\ UNCHANGED <<text, end_char, work, rotations, lf_map, walk, result>>
  /\ UNCHANGED toolvars

\* invert_bwt_via_map line 219
BuildMap ==
  /\ pc = "encoded"
  /\ lf_map' = build_map(bwt)
  /\ pc' = "index"
  /\ UNCHANGED <<text, end_char, work, rotations, bwt, walk, result>>
  /\ UNCHANGED toolvars

\* invert_bwt_via_map line 221 enters text_using_map without end_char, so
\* line 175 looks for the default '$'; ValueError leaves the call
FindEndChar ==
  /\ pc = "index"
  /\ LET start == str_index(bwt, Dollar)
     IN  IF start.raised
         THEN /\ pc' = "raised"
              /\ walk' = walk
         ELSE /\ pc' = "walk"
              /\ walk' = [x |-> start.value, i |-> 0, text |-> <<>>,
                         visited |-> <<>>]
  /\ UNCHANGED <<text, end_char, work, rotations, bwt, lf_map, result>>
  /\ UNCHANGED toolvars

\* text_using_map lines 179-181
WalkStep ==
  /\ pc = "walk"
  /\ walk.i < Len(bwt)
  /\ walk' = walk_step(bwt, lf_map, walk)
  /\ UNCHANGED <<text, end_char, pc, work, rotations, bwt, lf_map, result>>
  /\ UNCHANGED toolvars

\* text_using_map line 183 and invert_bwt_via_map line 222
StripEndChar ==
  /\ pc = "walk"
  /\ walk.i = Len(bwt)
  /\ result' = drop_last(walk.text)
  /\ pc' = "done"
  /\ UNCHANGED <<text, end_char, work, rotations, bwt, lf_map, walk>>
  /\ UNCHANGED toolvars

Next ==
  \/ AppendEndChar
  \/ MakeRotations
  \/ SortRotations
  \/ ExtractBwt
  \/ BuildMap
  \/ FindEndChar
  \/ WalkStep
  \/ StripEndChar

Spec == Init /\ [][Next]_vars

\* a call of invert_bwt_via_map(bwt, end_char) on an arbitrary string
InvChars == TextChars \cup {35, Dollar}

InitInv ==
  /\ bwt \in StringsUpTo(InvChars, MaxLen)
  /\ end_char \in SentinelChars
  /\ pc = "encoded"
  /\ text = <<>>
  /\ work = <<>>
  /\ rotations = <<>>
  /\ lf_map = <<>>
  /\ walk = NoWalk
  /\ result = <<>>
  /\ ToolIdle

NextInv ==
  \/ BuildMap
  \/ FindEndChar
  \/ WalkStep
  \/ StripEndChar

SpecInv == InitInv /\ [][NextInv]_vars

\* ------------------------------------------------- the tools around it
\* characters the checked units are drawn from: 'a', '$', '#' for the units
\* to decode and 'a', ' ', '$' for the units to encode
DecodeChars == {97, Dollar, 35}
EncodeChars == {97, Space, Dollar}

RECURSIVE FilesUpTo(_, _)
FilesUpTo(units, n) ==
  IF n = 0 THEN {<<>>}
  ELSE LET shorter == FilesUpTo(units, n - 1)
       IN  shorter \cup {Append(f, u) : f \in shorter, u \in units}

\* the lines the file iterator yields for a file that ends with a newline
AsLines(f) == [k \in 1 .. Len(f) |-> f[k] \o <<Newline>>]

\* 'Line no. 1 has more than one symbols.'
SymbolsMessageLine ==
  <<76, 105, 110, 101, 32, 110, 111, 46, 32, 49, 32, 104, 97, 115, 32, 109,
    111, 114, 101, 32, 116, 104, 97, 110, 32, 111, 110, 101, 32, 115, 121,
    109, 98, 111, 108, 115, 46>>

\* 'Line no. 1 has characters other than spaces and alphanumeric.'
BadCharsMessageLine ==
  <<76, 105, 110, 101, 32, 110, 111, 46, 32, 49, 32, 104, 97, 115, 32, 99,
    104, 97, 114, 97, 99, 116, 101, 114, 115, 32, 111, 116, 104, 101, 114,
    32, 116, 104, 97, 110, 32, 115, 112, 97, 99, 101, 115, 32, 97, 110,
    100, 32, 97, 108, 112, 104, 97, 110, 117, 109, 101, 114, 105, 99, 46>>

\* files to decode: every file within the bounds, one whose second line
\* reads like the message its own validation gives, and one that does not
\* end with a newline
DecodeFiles ==
  {AsLines(f) : f \in FilesUpTo(StringsUpTo(DecodeChars, MaxUnitLen), MaxLines)}
    \cup {<< <<Dollar, Newline>>, SymbolsMessageLine \o <<Newline>> >>,
          << <<35, Newline>>, <<97, Dollar>> >>}

\* files to encode, likewise
EncodeFiles ==
  {AsLines(f) : f \in FilesUpTo(StringsUpTo(EncodeChars, MaxUnitLen), MaxLines)}
    \cup {<< <<97, Newline>>, BadCharsMessageLine \o <<Newline>> >>,
          << <<Dollar, Newline>>, <<Space, 97>> >>}

\* the entries of printed
Out(kind, value) == [kind |-> kind, value |-> value]
Help == Out("help", <<>>)

\* the entry of calls
Call(fn, arg, line_no) == [fn |-> fn, arg |-> arg, line_no |-> line_no]

CoreIdle ==
  /\ text = <<>>
  /\ work = <<>>
  /\ rotations = <<>>
  /\ bwt = <<>>
  /\ lf_map = <<>>
  /\ walk = NoWalk
  /\ result = <<>>

\* `if bwt == raw_bwt` / `if bwt != string` / `if text == raw_text`: the
\* validator gave the unit back unchanged
accepted(u) == u.checked = u.raw

\* main(('invert_bwt', '-s', string)), main(('bw_transform', '-s', string)),
\* or decode_file_as_word_list / encode_file_as_word_list on a file, with the
\* default end_char as process_file is called by main
InitTool ==
  /\ CoreIdle
  /\ end_char = Dollar
  /\ counter = 0
  /\ output_list = <<>>
  /\ unit = NoUnit
  /\ printed = <<>>
  /\ calls = <<>>
  /\ \/ /\ pc = "dec_s"
        /\ string \in StringsUpTo(DecodeChars \cup {Space}, MaxLen)
        /\ lines = <<>>
     \/ /\ pc = "dec_f"
        /\ string = <<>>
        /\ lines \in DecodeFiles
     \/ /\ pc = "enc_f"
        /\ string = <<>>
        /\ lines \in EncodeFiles
     \/ /\ pc = "enc_s"
        /\ string \in StringsUpTo(EncodeChars, MaxLen) \cup {MsgBadChars}
        /\ lines = <<>>

\* invert_bwt.py main lines 440-445
DecodeStringValidate ==
  /\ pc = "dec_s"
  /\ IF string = <<>>
     THEN /\ printed' = <<Out("no_string", <<>>), Help>>
          /\ pc' = "dec_s_returned"
          /\ unit' = unit
     ELSE /\ unit' = [raw |-> string,
                      checked |-> validate_bwt(string, NoLineNo, Dollar)]
          /\ pc' = "dec_s_checked"
          /\ printed' = printed
  /\ UNCHANGED <<end_char, corevars, string, lines, counter, output_list, calls>>

\* invert_bwt.py main lines 446-449
DecodeStringReject ==
  /\ pc = "dec_s_checked"
  /\ ~accepted(unit)
  /\ printed' = <<Out("invalid", unit.checked), Help>>
  /\ pc' = "dec_s_returned"
  /\ UNCHANGED <<end_char, corevars, string, lines, counter, output_list, unit, calls>>

\* invert_bwt.py main lines 450-462
DecodeStringInvert ==
  /\ pc = "dec_s_checked"
  /\ accepted(unit)
  /\ calls' = Append(calls, Call("invert_bwt_via_map", unit.checked, NoLineNo))
  /\ LET temp_text == invert_bwt_via_map(unit.checked, Dollar)
     IN  printed' =
           IF temp_text.raised THEN <<Out("exception", <<>>), Help>>
           ELSE IF authenticate(unit.checked, temp_text.value, Dollar)
           THEN <<Out("decoded", temp_text.value)>>
           ELSE <<Out("not_a_transform", <<>>)>>
  /\ pc' = "dec_s_returned"
  /\ UNCHANGED <<end_char, corevars, string, lines, counter, output_list, unit>>

\* decode_file_as_word_list lines 337-342
DecodeLineValidate ==
  /\ pc = "dec_f"
  /\ counter < Len(lines)
  /\ LET raw_bwt == strip(lines[counter + 1], {Newline})
     IN  unit' = [raw |-> raw_bwt,
                  checked |-> validate_bwt(raw_bwt, counter, Dollar)]
  /\ pc' = "dec_f_checked"
  /\ UNCHANGED <<end_char, corevars, string, lines, counter, output_list, printed, calls>>

\* decode_file_as_word_list lines 343-350 and 354-358
DecodeLineInvert ==
  /\ pc = "dec_f_checked"
  /\ accepted(unit)
  /\ calls' = Append(calls, Call("invert_bwt_via_map", unit.checked, counter))
  /\ LET temp_text == invert_bwt_via_map(unit.checked, end_char)
     IN  IF temp_text.raised
         THEN /\ printed' = Append(printed, Out("exception", str_int(counter)))
              /\ output_list' = Append(output_list, <<>>)
         ELSE IF authenticate(unit.checked, temp_text.value, end_char)
         THEN /\ printed' = printed
              /\ output_list' = Append(output_list, temp_text.value)
         ELSE /\ printed' = Append(printed, Out("unable", str_int(counter)))
              /\ output_list' = Append(output_list, <<>>)
  /\ counter' = counter + 1
  /\ pc' = "dec_f"
  /\ UNCHANGED <<end_char, corevars, string, lines, unit>>

\* variant: a rejected line is skipped before output_list.append
DecodeLineRejectSkips ==
  /\ pc = "dec_f_checked"
  /\ ~accepted(unit)
  /\ printed' = Append(printed, Out("invalid", unit.checked))
  /\ counter' = counter + 1
  /\ pc' = "dec_f"
  /\ UNCHANGED <<end_char, corevars, string, lines, output_list, unit, calls>>

\* decode_file_as_word_list lines 351-353 and 357-358
DecodeLineReject ==
  /\ pc = "dec_f_checked"
  /\ ~accepted(unit)
  /\ printed' = Append(printed, Out("invalid", unit.checked))
  /\ output_list' = Append(output_list, <<>>)
  /\ counter' = counter + 1
  /\ pc' = "dec_f"
  /\ UNCHANGED <<end_char, corevars, string, lines, unit, calls>>

\* decode_file_as_word_list line 359
DecodeFileReturn ==
  /\ pc = "dec_f"
  /\ counter = Len(lines)
  /\ pc' = "dec_f_returned"
  /\ UNCHANGED <<end_char, corevars, toolvars>>

\* encode_file_as_word_list lines 356-359
EncodeLineValidate ==
  /\ pc = "enc_f"
  /\ counter < Len(lines)
  /\ LET raw_text == strip(lines[counter + 1], Whitespace)
     IN  unit' = [raw |-> raw_text, checked |-> validate_text(raw_text, counter)]
  /\ pc' = "enc_f_checked"
  /\ UNCHANGED <<end_char, corevars, string, lines, counter, output_list, printed, calls>>

\* encode_file_as_word_list lines 360-367 and 371-375
EncodeLineTransform ==
  /\ pc = "enc_f_checked"
  /\ accepted(unit)
  /\ calls' = Append(calls, Call("bw_transform", unit.checked, counter))
  /\ LET temp_bwt == bw_transform(unit.checked, end_char)
     IN  IF authenticate(temp_bwt, unit.checked, end_char)
         THEN /\ printed' = printed
              /\ output_list' = Append(output_list, temp_bwt)
         ELSE /\ printed' = Append(printed, Out("unable", str_int(counter)))
              /\ output_list' = Append(output_list, <<>>)
  /\ counter' = counter + 1
  /\ pc' = "enc_f"
  /\ UNCHANGED <<end_char, corevars, string, lines, unit>>

\* encode_file_as_word_list lines 368-370 and 374-375
EncodeLineReject ==
  /\ pc = "enc_f_checked"
  /\ ~accepted(unit)
  /\ printed' = Append(printed, Out("invalid", unit.checked))
  /\ output_list' = Append(output_list, <<>>)
  /\ counter' = counter + 1
  /\ pc' = "enc_f"
  /\ UNCHANGED <<end_char, corevars, string, lines, unit, calls>>

\* encode_file_as_word_list line 376
EncodeFileReturn ==
  /\ pc = "enc_f"
  /\ counter = Len(lines)
  /\ pc' = "enc_f_returned"
  /\ UNCHANGED <<end_char, corevars, toolvars>>

\* bw_transform.py main lines 453-459
EncodeStringValidate ==
  /\ pc = "enc_s"
  /\ IF string = <<>>
     THEN /\ printed' = <<Out("no_string", <<>>), Help>>
          /\ pc' = "enc_s_returned"
          /\ unit' = unit
     ELSE /\ LET stripped == strip(string, Whitespace)
             IN  unit' = [raw |-> stripped,
                          checked |-> validate_text(stripped, NoLineNo)]
          /\ pc' = "enc_s_checked"
          /\ printed' = printed
  /\ UNCHANGED <<end_char, corevars, string, lines, counter, output_list, calls>>

\* bw_transform.py main lines 460-463
EncodeStringReject ==
  /\ pc = "enc_s_checked"
  /\ ~accepted(unit)
  /\ printed' = <<Out("invalid", unit.checked), Help>>
  /\ pc' = "enc_s_returned"
  /\ UNCHANGED <<end_char, corevars, string, lines, counter, output_list, unit, calls>>

\* bw_transform.py main lines 465-467; bw_transform does not raise
EncodeStringTransform ==
  /\ pc = "enc_s_checked"
  /\ accepted(unit)
  /\ calls' = Append(calls, Call("bw_transform", unit.checked, NoLineNo))
  /\ printed' = <<Out("encoded", bw_transform(unit.checked, Dollar))>>
  /\ pc' = "enc_s_returned"
  /\ UNCHANGED <<end_char, corevars, string, lines, counter, output_list, unit>>

NextTool ==
  \/ DecodeStringValidate
  \/ DecodeStringReject
  \/ DecodeStringInvert
  \/ DecodeLineValidate
  \/ DecodeLineInvert
  \/ DecodeLineReject
  \/ DecodeFileReturn
  \/ EncodeLineValidate
  \/ EncodeLineTransform
  \/ EncodeLineReject
  \/ EncodeFileReturn
  \/ EncodeStringValidate
  \/ EncodeStringReject
  \/ EncodeStringTransform

SpecTool == InitTool /\ [][NextTool]_vars


\* ----------------------------------------------------------------- claims
Finished == pc \in {"done", "raised"}
Chars(s) == {s[k] : k \in 1 .. Len(s)}

\* C1: for every text T over the alphabet and every sentinel s that does not
\* occur in T, invert_bwt_via_map(bw_transform(T, s), s) returns exactly T.
C1_RoundTripAnySentinel ==
  (Finished /\ ~Occurs(end_char, text)) => (pc = "done" /\ result = text)

\* C2: with the default end_char '$' in both calls,
\* invert_bwt_via_map(bw_transform(T)) returns T for every text T over the
\* alphabet, repeated characters, spaces and digits included.
C2_RoundTripDefault ==
  (Finished /\ end_char = Dollar) => (pc = "done" /\ result = text)

C2_Witness ==
  /\ pc = "done"
  /\ end_char = Dollar
  /\ Count(97, text) >= 2
  /\ Occurs(Space, text)
  /\ Occurs(51, text)
  /\ result = text

\* C3 as stated: with sentinel '$', the rotation that begins with the
\* sentinel is the first of the sorted rotations.
C3_SentinelFirst ==
  (pc = "extract" /\ end_char = Dollar) => rotations[1][1] = Dollar

\* C3 amended: with sentinel '$', the rotation that begins with the sentinel
\* precedes every sorted rotation that begins with an alphabet character
\* other than the space and follows every one that begins with a space; it
\* is the first sorted rotation exactly when the text holds no space.
C3_SentinelAfterSpace ==
  (pc = "extract" /\ end_char = Dollar) =>
    /\ \A j, k \in 1 .. Len(rotations) :
         rotations[j][1] = Dollar =>
           /\ rotations[k][1] \in ALPHABET \ {Space} => j < k
           /\ rotations[k][1] = Space => k < j
    /\ (rotations[1][1] = Dollar) <=> ~Occurs(Space, text)

C3_Witness ==
  /\ pc = "extract"
  /\ end_char = Dollar
  /\ Occurs(Space, text)
  /\ Occurs(97, text)
  /\ rotations[1][1] = Space
  /\ rotations[Len(rotations)][1] = 97

\* C4: the map built from a transform of length n has length n and every
\* index of [0, n) appears in it exactly once.
C4_MapIsPermutation ==
  pc = "index" =>
    /\ Len(lf_map) = Len(bwt)
    /\ \A idx \in 0 .. Len(bwt) - 1 :
         Cardinality({k \in 1 .. Len(lf_map) : lf_map[k] = idx}) = 1

C4_Witness ==
  /\ pc = "index"
  /\ Len(bwt) >= 4
  /\ Count(97, bwt) >= 2
  /\ Count(98, bwt) >= 1

\* C5: bw_transform(T, s) has the same multiset of characters as T + s, so
\* its length is len(T) + 1, and it holds s exactly once when s is not in T.
C5_TransformIsRearrangement ==
  pc = "encoded" =>
    /\ \A c \in Chars(bwt) \cup Chars(text) \cup {end_char} :
         Count(c, bwt) = Count(c, text \o <<end_char>>)
    /\ Len(bwt) = Len(text) + 1
    /\ ~Occurs(end_char, text) => Count(end_char, bwt) = 1

C5_Witness ==
  /\ pc = "encoded"
  /\ Len(text) >= 3
  /\ Count(97, text) >= 2
  /\ ~Occurs(end_char, text)
  /\ bwt # text \o <<end_char>>

\* C6: for every sentinel s, the rotation set of the sentinel-terminated
\* empty text is the single rotation s and bw_transform('', s) returns s.
C6_EmptyText ==
  text = <<>> =>
    /\ pc \in {"sort", "extract"} => rotations = << <<end_char>> >>
    /\ pc = "encoded" => bwt = <<end_char>>

C6_Witness ==
  /\ text = <<>>
  /\ pc = "encoded"
  /\ end_char = 35
  /\ bwt = <<35>>

\* C7: whenever s does not occur in B, invert_bwt_via_map(B, s) raises.
C7_AbsentSentinelRaises ==
  (Finished /\ ~Occurs(end_char, bwt)) => pc = "raised"

\* C8 as stated: a call with a string in which the sentinel occurs more than
\* once fails with an error.
C8_DuplicateSentinelRaises ==
  (Finished /\ Count(end_char, bwt) > 1) => pc = "raised"

\* C8 amended: a call with a string in which '$' occurs more than once does
\* not fail; it returns a string of length len(B) - 1.
C8_DuplicateSentinelReturns ==
  (Finished /\ Count(Dollar, bwt) > 1) =>
    (pc = "done" /\ Len(result) = Len(bwt) - 1)

C8_Witness ==
  /\ pc = "done"
  /\ Count(Dollar, bwt) = 2
  /\ Occurs(97, bwt)
  /\ Len(result) = Len(bwt) - 1

\* the unit on line k of the file handed to decode_file_as_word_list
LineUnit(k) == strip(lines[k], {Newline})

\* what main of invert_bwt.py prints first is an error message: the missing
\* string, or one of the two messages of validate_bwt for a string
ErrorMessagePrinted ==
  \/ printed[1].kind = "no_string"
  \/ /\ printed[1].kind = "invalid"
     /\ printed[1].value \in {MsgNoSymbols, MsgManySymbols}

\* C9: invert_bwt_via_map is called only on a unit that validate_bwt gave
\* back unchanged, and a unit in which '$' occurs zero times or more than
\* once never yields decoded text: the string path prints an error message,
\* the file path appends the empty entry.
C9_ValidatedBeforeInvert ==
  /\ \A k \in 1 .. Len(calls) :
       calls[k].fn = "invert_bwt_via_map" =>
         validate_bwt(calls[k].arg, calls[k].line_no, Dollar) = calls[k].arg
  /\ (pc = "dec_s_returned" /\ Count(Dollar, string) # 1) =>
       /\ ErrorMessagePrinted
       /\ \A k \in 1 .. Len(printed) : printed[k].kind # "decoded"
  /\ pc \in {"dec_f", "dec_f_checked", "dec_f_returned"} =>
       \A k \in 1 .. Len(output_list) :
         Count(Dollar, LineUnit(k)) # 1 => output_list[k] = <<>>

\* what the claim gives as entry of a line of decode_file_as_word_list
DecodedEntry(line, n) ==
  LET raw_bwt == strip(line, {Newline})
      temp_text == invert_bwt_via_map(raw_bwt, Dollar)
  IN  IF validate_bwt(raw_bwt, n, Dollar) # raw_bwt THEN <<>>
      ELSE IF temp_text.raised THEN <<>>
      ELSE IF ~authenticate(raw_bwt, temp_text.value, Dollar) THEN <<>>
      ELSE temp_text.value

\* what the claim gives as entry of a line of encode_file_as_word_list
EncodedEntry(line, n) ==
  LET raw_text == strip(line, Whitespace)
      temp_bwt == bw_transform(raw_text, Dollar)
  IN  IF validate_text(raw_text, n) # raw_text THEN <<>>
      ELSE IF ~authenticate(temp_bwt, raw_text, Dollar) THEN <<>>
      ELSE temp_bwt

InDecodeFile == pc \in {"dec_f", "dec_f_checked", "dec_f_returned"}
InEncodeFile == pc \in {"enc_f", "enc_f_checked", "enc_f_returned"}

C10_Entries ==
  (InDecodeFile \/ InEncodeFile) =>
    /\ Len(output_list) = counter
    /\ counter <= Len(lines)
    /\ pc \in {"dec_f_returned", "enc_f_returned"} =>
         Len(output_list) = Len(lines)
    /\ \A k \in 1 .. Len(output_list) :
         output_list[k] = IF InDecodeFile THEN DecodedEntry(lines[k], k - 1)
                          ELSE EncodedEntry(lines[k], k - 1)

C10_EntriesKept ==
  /\ Len(output_list') >= Len(output_list)
  /\ \A k \in 1 .. Len(output_list) : output_list'[k] = output_list[k]

\* C10: encode_file_as_word_list and decode_file_as_word_list take the lines
\* in file order and return one entry per line; entry i is the result of
\* line i, or '' when line i fails validation, fails the round-trip check
\* or raises, and no later line changes an entry already made.
C10_OneEntryPerLine == []C10_Entries /\ [][C10_EntriesKept]_vars

C10_Witness ==
  /\ pc = "dec_f_returned"
  /\ Len(lines) = 2
  /\ validate_bwt(LineUnit(1), 0, Dollar) # LineUnit(1)
  /\ output_list = << <<>>, <<97>> >>

\* C11: in main's -s branch and in encode_file_as_word_list, bw_transform is
\* called only on texts all of whose characters are in ALPHABET.
C11_AlphabetOnly ==
  \A k \in 1 .. Len(calls) :
    calls[k].fn = "bw_transform" => Chars(calls[k].arg) \subseteq ALPHABET

\* the transforms of the texts free of '$'
Transforms == {bw_transform(t, Dollar) : t \in StringsUpTo(TextChars, MaxLen - 1)}

Distinct(s) == \A j, k \in 1 .. Len(s) : j # k => s[j] # s[k]

\* the walk of text_using_map is over: n steps were made and the n indices
\* visited are all of 0 .. n-1, each once
WalkCovers ==
  /\ walk.i = Len(bwt)
  /\ Len(walk.visited) = Len(bwt)
  /\ Distinct(walk.visited)
  /\ Chars(walk.visited) = 0 .. Len(bwt) - 1

\* C12 as stated: for every string with exactly one '$', the walk makes n
\* steps and visits every index of [0, n) exactly once.
C12_WalkCoversAnyString ==
  (pc = "done" /\ Count(Dollar, bwt) = 1) => WalkCovers

\* C12: for every string that is the transform of a text free of '$', the walk
\* starts at the position of '$', never visits an index twice, and when it is
\* over it has made n steps and visited every index of [0, n) exactly once.
C12_WalkCoversTransform ==
  bwt \in Transforms =>
    /\ pc = "walk" => /\ Len(walk.visited) = walk.i
                      /\ Distinct(walk.visited)
                      /\ walk.i = 0 => walk.x = str_index(bwt, Dollar).value
    /\ pc = "done" => WalkCovers

C12_Witness ==
  /\ pc = "done"
  /\ bwt \in Transforms
  /\ Len(bwt) = MaxLen
  /\ Len(walk.visited) = MaxLen
  /\ walk.visited[1] # 0

\* C13: with F = sort_string(L) and m = build_map(L), L[m[k]] = F[k] for every
\* k, and equal characters of F keep the order of their indices in L:
\* m[j] < m[k] for all j < k with F[j] = F[k].
C13_OccurrenceOrder ==
  pc = "index" =>
    LET F == sort_string(bwt)
    IN  /\ Len(lf_map) = Len(bwt)
        /\ \A k \in 1 .. Len(lf_map) : bwt[lf_map[k] + 1] = F[k]
        /\ \A j, k \in 1 .. Len(lf_map) :
             (j < k /\ F[j] = F[k]) => lf_map[j] < lf_map[k]

C13_Witness ==
  /\ pc = "index"
  /\ Len(bwt) = MaxLen
  /\ \E j, k \in 1 .. Len(bwt) : j + 1 < k /\ bwt[j] = bwt[k] /\ bwt[j + 1] < bwt[j]
  /\ \E k \in 1 .. Len(lf_map) : lf_map[k] # k - 1

\* the first characters of the rotations, in the order they are held
FirstColumn(rots) == [k \in 1 .. Len(rots) |-> rots[k][1]]

\* C14: for every text T over ALPHABET, sort_string(bw_transform(T)) is the
\* string of the first characters of sort_rotations(make_rotations(T + '$'))
\* taken in sorted order.
C14_FirstColumnIsSortedLast ==
  (pc = "encoded" /\ end_char = Dollar) =>
    /\ bwt = bw_transform(text, Dollar)
    /\ rotations = sort_rotations(make_rotations(text \o <<Dollar>>))
    /\ sort_string(bwt) = FirstColumn(rotations)

C14_Witness ==
  /\ pc = "encoded"
  /\ end_char = Dollar
  /\ Len(text) = MaxLen
  /\ Cardinality(Chars(text)) >= 3
  /\ bwt # sort_string(bwt)
  /\ bwt # FirstColumn(make_rotations(text \o <<Dollar>>))

\* C15: for every text X of length n, make_rotations(X) holds exactly n
\* strings of length n, element i at offset j is X[(i + j) mod n], element 0
\* is X itself, and for n = 0 the result is the empty tuple.
C15_RotationEnumeration ==
  /\ make_rotations(<<>>) = <<>>
  /\ pc = "sort" =>
       LET n == Len(work)
       IN  /\ Len(rotations) = n
           /\ \A i \in 0 .. n - 1 :
                /\ Len(rotations[i + 1]) = n
                /\ \A j \in 0 .. n - 1 :
                     rotations[i + 1][j + 1] = work[((i + j) % n) + 1]
           /\ rotations[1] = work

C15_Witness ==
  /\ pc = "sort"
  /\ Len(work) = MaxLen + 1
  /\ Cardinality(Chars(work)) >= 3
  /\ Len(rotations) = MaxLen + 1
  /\ rotations[2] # work
  /\ rotations[MaxLen + 1][1] = end_char

\* C16: sorting is idempotent: for every rotation sequence R,
\* sort_rotations(sort_rotations(R)) = sort_rotations(R), so sorting the
\* rotations bw_transform has sorted leaves them as they are.
C16_SortIdempotent ==
  /\ pc = "sort" =>
       sort_rotations(sort_rotations(rotations)) = sort_rotations(rotations)
  /\ pc = "extract" => sort_rotations(rotations) = rotations

C16_Witness ==
  /\ pc = "extract"
  /\ Len(rotations) >= 4
  /\ rotations # make_rotations(work)
  /\ \E k \in 1 .. Len(rotations) - 1 : rotations[k] = rotations[k + 1]

\* how the call of invert_bwt_via_map on bwt with end_char ended
Outcome ==
  IF pc = "raised" THEN [raised |-> TRUE, value |-> <<>>]
  ELSE [raised |-> FALSE, value |-> result]

\* C17: the end_char argument of invert_bwt_via_map has no influence on its
\* outcome: the call made with any end_char ends as the call with any other
\* end_char does, both raising or both returning the same string.
C17_EndCharIgnored ==
  Finished => \A e2 \in SentinelChars : Outcome = invert_bwt_via_map(bwt, e2)

C17_Witness ==
  /\ pc = "done"
  /\ end_char # Dollar
  /\ Occurs(end_char, bwt)
  /\ str_index(bwt, end_char).value # str_index(bwt, Dollar).value
  /\ Len(result) >= 2

====
